---- MODULE Spec2Model ----
(***************************************************************************)
(* Model of mono_cbp.pipeline.pipeline.MonoCBPPipeline: the orchestrator   *)
(* that sequences eclipse masking, transit search, model-comparison        *)
(* vetting and injection-retrieval, and keeps a registry of stage results. *)
(*                                                                         *)
(* The four stage collaborators (EclipseMasker, TransitFinder,             *)
(* ModelComparator, TransitInjector) are the environment: every invocation *)
(* either returns (a table, where the stage has one) or raises, and the    *)
(* transit finder also replaces its own `results` mapping.                 *)
(*                                                                         *)
(* Every public method is one action.  The action records the call, the    *)
(* collaborator invocations it made, in order, and what it handed back;    *)
(* Return gives control back to the caller, who may then call again.       *)
(*                                                                         *)
(* The pure functions of mono_cbp.utils.eclipses are operators; each has a *)
(* specification of its own (SpecEclipse) that draws the arguments in its  *)
(* initial state and applies the function.                                 *)
(***************************************************************************)
EXTENDS Integers, Sequences, FiniteSets, TLC

VARIABLES
    transit_injector,   \* TRUE iff self.transit_injector is not None
    config,             \* self.config (the part the orchestrator reads)
    results,            \* self.results, the results registry
    finder_results,     \* self.transit_finder.results
    call,               \* the method call made last, with its arguments
    trace,              \* collaborator invocations of that call, in order
    outcome,            \* "none" | "returned" | "ValueError" | "CollaboratorError"
    ret,                \* the table the call returned (NoTable if none)
    ret_registry,       \* the registry run returned, as <<registry>>, else <<>>
    warnings,           \* logger.warning records emitted by the call
    config_read,        \* TRUE iff the call read self.config
    caller_kwargs       \* the caller's vet_candidates_kwargs mapping after the call

\* utils.eclipses: the arguments of a call and what it produced
VARIABLES
    e_op,               \* "off" | "args" | "indices" | "mask"
    e_phases,           \* the phases array (after the call)
    e_input,            \* the phases array as it was passed
    e_pos,              \* pos
    e_width,            \* width
    e_indices,          \* the index array get_eclipse_indices returned
    e_mask              \* the mask get_eclipse_mask returned

pipeline_vars ==
    <<transit_injector, config, results, finder_results, call, trace,
      outcome, ret, ret_registry, warnings, config_read, caller_kwargs>>
\* utils.eclipses.time_to_phase: the arguments of a call and its result
VARIABLES
    p_op,               \* "off" | "args" | "phase"
    p_time,             \* one element of times
    p_period,           \* period
    p_t0,               \* t0
    p_centre,           \* centre
    p_phase             \* the element of the returned phases

\* constructions of orchestrators on one output location
VARIABLES
    c_pc,               \* where each construction is in lines 58-61
    c_exists,           \* the output directory exists
    c_contents          \* the files in it

\* MonoCBPPipeline.__init__, line 55: the configuration
VARIABLES
    g_op,               \* "off" | "args" | "built"
    g_user_in,          \* the config argument as the caller passed it
    g_user,             \* the caller's mapping after the construction
    g_default,          \* the default configuration after the construction
    g_config            \* self.config

eclipse_vars == <<e_op, e_phases, e_input, e_pos, e_width, e_indices, e_mask>>
phase_vars == <<p_op, p_time, p_period, p_t0, p_centre, p_phase>>
ctor_vars == <<c_pc, c_exists, c_contents>>
config_vars == <<g_op, g_user_in, g_user, g_default, g_config>>
other_vars == <<eclipse_vars, phase_vars, ctor_vars, config_vars>>

vars == <<pipeline_vars, eclipse_vars, phase_vars, ctor_vars, config_vars>>

(***************************************************************************)
(* Bounds                                                                  *)
(***************************************************************************)
NTables == 2            \* distinct result tables a collaborator can return
MaxSnippetLen == 1      \* longest snippet list
MaxNInjections == 1     \* largest n_injections
MaxPhases == 2          \* longest phases array
NConstructions == 3     \* constructions on the same output location
MaxFiles == 2           \* files other programs put into the output directory

(***************************************************************************)
(* Python values                                                           *)
(***************************************************************************)
None == <<>>
Some(v) == <<v>>
IsNone(o) == Len(o) = 0
Value(o) == o[1]

EmptyDict == [k \in {} |-> 0]
DictGet(d, k, default) == IF k \in DOMAIN d THEN d[k] ELSE default
DictSet(d, k, v) == [j \in DOMAIN d \cup {k} |-> IF j = k THEN v ELSE d[j]]
Restrict(d, D) == [k \in D |-> d[k]]

\* An option mapping (a **kwargs dict) holds, under each key, Some(value) or
\* None.  A keyword argument of a **mapping call is what the mapping holds
\* under the key, and the parameter's default None when the key is not there.
KwArg(kw, k) == IF k \in DOMAIN kw THEN kw[k] ELSE None

\* `x or default` on a path: None and the empty string are falsy
PathOr(o, default) ==
    IF IsNone(o) \/ Len(Value(o)) = 0 THEN default ELSE Value(o)

NoTable == 0
Tables == 1..NTables
Snippets == {"s1", "s2"}
SnippetLists == UNION {[1..n -> Snippets] : n \in 0..MaxSnippetLen}

\* paths are sequences of components; os.path.join appends one
Join(path, name) == Append(path, name)
OutputDir == <<"results">>
DataDir == <<"data">>
OtherDirs == {<<"alt">>}
SnippetDirs == {<<"snips">>}

FinderResults == {EmptyDict} \cup {[event_snippets |-> l] : l \in SnippetLists}

\* the merged configuration, as far as the orchestrator reads it
Configs == {[injection_retrieval |-> [n_injections |-> MaxNInjections]]}

(***************************************************************************)
(* The state of one method call in progress: the mutable part of self plus *)
(* what the call has done so far.                                          *)
(***************************************************************************)
Enter(reg, fr) ==
    [results |-> reg, finder_results |-> fr, trace |-> <<>>, exc |-> "none",
     ret |-> NoTable, ret_registry |-> None, warnings |-> 0,
     config_read |-> FALSE, vet_kwargs |-> None]

Invoke(s, ev) == [s EXCEPT !.trace = Append(@, ev)]
Raise(s, e) == [s EXCEPT !.exc = e, !.ret = NoTable]
Raised(s) == s.exc # "none"

(***************************************************************************)
(* Collaborator behaviours                                                 *)
(***************************************************************************)
MaskBehaviours == BOOLEAN       \* mask_all returns (TRUE) or raises (FALSE)
SearchBehaviours ==
    {[ok |-> FALSE, table |-> NoTable, finder |-> f] : f \in FinderResults} \cup
    {[ok |-> TRUE, table |-> t, finder |-> f] : t \in Tables, f \in FinderResults}
TableBehaviours ==
    {[ok |-> FALSE, table |-> NoTable]} \cup {[ok |-> TRUE, table |-> t] : t \in Tables}
Unused == [ok |-> FALSE, table |-> NoTable]
UnusedSearch == [ok |-> FALSE, table |-> NoTable, finder |-> EmptyDict]

(***************************************************************************)
(* Stage entry operations                                                  *)
(***************************************************************************)
\* mask_eclipses(**kwargs): the options are handed to mask_all unread
mask_eclipses(s, m) ==
    LET s1 == Invoke(s, [stage |-> "mask", returned |-> m])
    IN  IF m THEN s1 ELSE Raise(s1, "CollaboratorError")

\* variant: the stage entry operation itself writes the registry
find_transits_Storing(s, output_dir, c) ==
    LET od == IF IsNone(output_dir) THEN OutputDir ELSE Value(output_dir)
        s1 == Invoke(s, [stage |-> "search", returned |-> c.ok, table |-> c.table,
                         data_dir |-> DataDir, output_dir |-> od])
        s2 == [s1 EXCEPT !.finder_results = c.finder]
    IN  IF c.ok THEN [s2 EXCEPT !.ret = c.table,
                                !.results = DictSet(@, "transit_finding", c.table)]
        ELSE Raise(s2, "CollaboratorError")

find_transits(s, output_dir, c) ==
    LET od == IF IsNone(output_dir) THEN OutputDir ELSE Value(output_dir)
        s1 == Invoke(s, [stage |-> "search", returned |-> c.ok, table |-> c.table,
                         data_dir |-> DataDir, output_dir |-> od])
        s2 == [s1 EXCEPT !.finder_results = c.finder]
    IN  IF c.ok THEN [s2 EXCEPT !.ret = c.table] ELSE Raise(s2, "CollaboratorError")

\* the directory read when neither snippets nor a directory are given
DefaultSnippetsDir(output_dir) == Join(OutputDir, "event_snippets")

\* variant: `if event_snippets:` in place of `if event_snippets is not None:`
vet_candidates_Truthy(s, event_snippets, event_snippets_dir, output_dir, c) ==
    LET od == IF IsNone(output_dir) THEN OutputDir ELSE Value(output_dir)
        args == [event_snippets |-> event_snippets,
                 event_snippets_dir |-> event_snippets_dir,
                 output_dir |-> output_dir]
        dir == IF IsNone(event_snippets_dir)
               THEN Join(OutputDir, "event_snippets") ELSE Value(event_snippets_dir)
        ev == IF ~IsNone(event_snippets) /\ Len(Value(event_snippets)) > 0
              THEN [stage |-> "vet", returned |-> c.ok, table |-> c.table,
                    args |-> args, kind |-> "snippets",
                    snippets |-> Value(event_snippets), path |-> <<>>,
                    output_dir |-> od]
              ELSE [stage |-> "vet", returned |-> c.ok, table |-> c.table,
                    args |-> args, kind |-> "directory",
                    snippets |-> <<>>, path |-> dir,
                    output_dir |-> od]
        s1 == Invoke(s, ev)
    IN  IF c.ok THEN [s1 EXCEPT !.ret = c.table] ELSE Raise(s1, "CollaboratorError")

vet_candidates(s, event_snippets, event_snippets_dir, output_dir, c) ==
    LET od == IF IsNone(output_dir) THEN OutputDir ELSE Value(output_dir)
        args == [event_snippets |-> event_snippets,
                 event_snippets_dir |-> event_snippets_dir,
                 output_dir |-> output_dir]
        dir == IF IsNone(event_snippets_dir)
               THEN DefaultSnippetsDir(od) ELSE Value(event_snippets_dir)
        ev == IF ~IsNone(event_snippets)
              THEN [stage |-> "vet", returned |-> c.ok, table |-> c.table,
                    args |-> args, kind |-> "snippets",
                    snippets |-> Value(event_snippets), path |-> <<>>,
                    output_dir |-> od]
              ELSE [stage |-> "vet", returned |-> c.ok, table |-> c.table,
                    args |-> args, kind |-> "directory",
                    snippets |-> <<>>, path |-> dir,
                    output_dir |-> od]
        s1 == Invoke(s, ev)
    IN  IF c.ok THEN [s1 EXCEPT !.ret = c.table] ELSE Raise(s1, "CollaboratorError")

\* variant: `n_injections or self.config[...]`
ResolveNInjections_Falsy(n_injections) ==
    IF IsNone(n_injections) \/ Value(n_injections) = 0
    THEN config.injection_retrieval.n_injections
    ELSE Value(n_injections)

\* n_injections handed to the injector (line 259)
ResolveNInjections(n_injections) ==
    IF IsNone(n_injections) THEN config.injection_retrieval.n_injections
    ELSE Value(n_injections)

\* variant: the injector check comes after the configuration lookup
run_injection_retrieval_LateCheck(s, n_injections, output_dir, c) ==
    LET n == ResolveNInjections(n_injections)
        od == PathOr(output_dir, DataDir)
        s1 == [s EXCEPT !.config_read = IsNone(n_injections)]
        s2 == Invoke(s1, [stage |-> "inject", returned |-> c.ok, table |-> c.table,
                          data_dir |-> DataDir, n_injections |-> n,
                          output_dir |-> od])
    IN  IF ~transit_injector THEN Raise(s1, "ValueError")
        ELSE IF c.ok THEN [s2 EXCEPT !.ret = c.table]
        ELSE Raise(s2, "CollaboratorError")

run_injection_retrieval(s, n_injections, output_dir, c) ==
    IF ~transit_injector THEN Raise(s, "ValueError")
    ELSE
    LET n == ResolveNInjections(n_injections)
        od == PathOr(output_dir, DataDir)
        s1 == [s EXCEPT !.config_read = IsNone(n_injections)]
        s2 == Invoke(s1, [stage |-> "inject", returned |-> c.ok, table |-> c.table,
                          data_dir |-> DataDir, n_injections |-> n,
                          output_dir |-> od])
    IN  IF c.ok THEN [s2 EXCEPT !.ret = c.table] ELSE Raise(s2, "CollaboratorError")

(***************************************************************************)
(* run(find_transits, vet_candidates, injection_retrieval, **kwargs)       *)
(* e holds the behaviour of each collaborator, should run invoke it.       *)
(***************************************************************************)
\* Step 1: eclipse masking (always run)
Step1_EclipseMasking(s, e) == mask_eclipses(s, e.mask)

\* variant: the table of the search is not put in the registry
Step2_NoRecord(s, find, kwargs, e) ==
    IF ~find THEN s
    ELSE LET fk == DictGet(kwargs, "find_transits_kwargs", EmptyDict)
         IN  find_transits(s, KwArg(fk, "output_dir"), e.search)

\* variant: the search runs whatever find_transits says
Step2_Always(s, find, kwargs, e) ==
    LET fk == DictGet(kwargs, "find_transits_kwargs", EmptyDict)
        s1 == find_transits(s, KwArg(fk, "output_dir"), e.search)
    IN  IF Raised(s1) THEN s1
        ELSE [s1 EXCEPT !.results = DictSet(@, "transit_finding", s1.ret)]

\* variant: the table of the search is recorded under another key
Step2_WrongKey(s, find, kwargs, e) ==
    IF ~find THEN s
    ELSE LET fk == DictGet(kwargs, "find_transits_kwargs", EmptyDict)
             s1 == find_transits(s, KwArg(fk, "output_dir"), e.search)
         IN  IF Raised(s1) THEN s1
             ELSE [s1 EXCEPT !.results = DictSet(@, "find_transits", s1.ret)]

\* Step 2: transit finding
Step2_TransitFinding(s, find, kwargs, e) ==
    IF ~find THEN s
    ELSE LET fk == DictGet(kwargs, "find_transits_kwargs", EmptyDict)
             s1 == find_transits(s, KwArg(fk, "output_dir"), e.search)
         IN  IF Raised(s1) THEN s1
             ELSE [s1 EXCEPT !.results = DictSet(@, "transit_finding", s1.ret)]

\* variant: `if vet_candidates:` alone
VettingRequested_VetOnly(find, vet) == vet

\* the condition under which run vets (line 132)
VettingRequested(find, vet) == vet /\ find

\* the vetting options run hands to vet_candidates (lines 135-146); the
\* mapping is the caller's own object when the caller supplied one
PrepareVetKwargs(finder, vet_kwargs) ==
    LET event_snippets == DictGet(finder, "event_snippets", <<>>)
    IN  IF Len(event_snippets) > 0 /\ "event_snippets" \notin DOMAIN vet_kwargs
        THEN DictSet(vet_kwargs, "event_snippets", Some(event_snippets))
        ELSE vet_kwargs

\* Step 3: model comparison vetting
Step3_Vetting(s, find, vet, kwargs, e) ==
    IF ~VettingRequested(find, vet) THEN s
    ELSE LET vk == PrepareVetKwargs(s.finder_results,
                       DictGet(kwargs, "vet_candidates_kwargs", EmptyDict))
             s0 == IF "vet_candidates_kwargs" \in DOMAIN kwargs
                   THEN [s EXCEPT !.vet_kwargs = Some(vk)] ELSE s
             s1 == vet_candidates(s0, KwArg(vk, "event_snippets"),
                                  KwArg(vk, "event_snippets_dir"),
                                  KwArg(vk, "output_dir"), e.vet)
         IN  IF Raised(s1) THEN s1
             ELSE [s1 EXCEPT !.results = DictSet(@, "vetting", s1.ret)]

\* variant: no test of self.transit_injector before the stage is entered
Step4_NoNoneCheck(s, inj, kwargs, e) ==
    IF ~inj THEN s
    ELSE LET ik == DictGet(kwargs, "injection_retrieval_kwargs", EmptyDict)
             s1 == run_injection_retrieval(s, KwArg(ik, "n_injections"),
                                           KwArg(ik, "output_dir"), e.inj)
         IN  IF Raised(s1) THEN s1
             ELSE [s1 EXCEPT !.results = DictSet(@, "injection_retrieval", s1.ret)]

\* Step 4 (optional): injection-retrieval
Step4_InjectionRetrieval(s, inj, kwargs, e) ==
    IF ~inj THEN s
    ELSE IF ~transit_injector THEN [s EXCEPT !.warnings = @ + 1]
    ELSE LET ik == DictGet(kwargs, "injection_retrieval_kwargs", EmptyDict)
             s1 == run_injection_retrieval(s, KwArg(ik, "n_injections"),
                                           KwArg(ik, "output_dir"), e.inj)
         IN  IF Raised(s1) THEN s1
             ELSE [s1 EXCEPT !.results = DictSet(@, "injection_retrieval", s1.ret)]

\* variant: the search is started before the masking
run_SearchBeforeMask(s, find, vet, inj, kwargs, e) ==
    LET sk == IF "vet_candidates_kwargs" \in DOMAIN kwargs
              THEN [s EXCEPT !.vet_kwargs = Some(kwargs.vet_candidates_kwargs)]
              ELSE s
        s1 == Step2_TransitFinding(sk, find, kwargs, e)
        s2 == IF Raised(s1) THEN s1 ELSE Step1_EclipseMasking(s1, e)
        s3 == IF Raised(s2) THEN s2 ELSE Step3_Vetting(s2, find, vet, kwargs, e)
        s4 == IF Raised(s3) THEN s3 ELSE Step4_InjectionRetrieval(s3, inj, kwargs, e)
    IN  IF Raised(s4) THEN s4
        ELSE [s4 EXCEPT !.ret = NoTable, !.ret_registry = Some(s4.results)]

\* variant: every run starts from an empty registry
run_FreshRegistry(s, find, vet, inj, kwargs, e) ==
    LET sk == IF "vet_candidates_kwargs" \in DOMAIN kwargs
              THEN [s EXCEPT !.vet_kwargs = Some(kwargs.vet_candidates_kwargs),
                             !.results = EmptyDict]
              ELSE [s EXCEPT !.results = EmptyDict]
        s1 == Step1_EclipseMasking(sk, e)
        s2 == IF Raised(s1) THEN s1 ELSE Step2_TransitFinding(s1, find, kwargs, e)
        s3 == IF Raised(s2) THEN s2 ELSE Step3_Vetting(s2, find, vet, kwargs, e)
        s4 == IF Raised(s3) THEN s3 ELSE Step4_InjectionRetrieval(s3, inj, kwargs, e)
    IN  IF Raised(s4) THEN s4
        ELSE [s4 EXCEPT !.ret = NoTable, !.ret_registry = Some(s4.results)]

\* variant: a failing stage is logged and the run goes on with the next one
run_ContinueAfterError(s, find, vet, inj, kwargs, e) ==
    LET Caught(t) == [t EXCEPT !.exc = "none"]
        sk == IF "vet_candidates_kwargs" \in DOMAIN kwargs
              THEN [s EXCEPT !.vet_kwargs = Some(kwargs.vet_candidates_kwargs)]
              ELSE s
        s1 == Caught(Step1_EclipseMasking(sk, e))
        s2 == Caught(Step2_TransitFinding(s1, find, kwargs, e))
        s3 == Caught(Step3_Vetting(s2, find, vet, kwargs, e))
        s4 == Step4_InjectionRetrieval(s3, inj, kwargs, e)
    IN  IF Raised(s4) THEN s4
        ELSE [s4 EXCEPT !.ret = NoTable, !.ret_registry = Some(s4.results)]

run(s, find, vet, inj, kwargs, e) ==
    LET sk == IF "vet_candidates_kwargs" \in DOMAIN kwargs
              THEN [s EXCEPT !.vet_kwargs = Some(kwargs.vet_candidates_kwargs)]
              ELSE s
        s1 == Step1_EclipseMasking(sk, e)
        s2 == IF Raised(s1) THEN s1 ELSE Step2_TransitFinding(s1, find, kwargs, e)
        s3 == IF Raised(s2) THEN s2 ELSE Step3_Vetting(s2, find, vet, kwargs, e)
        s4 == IF Raised(s3) THEN s3 ELSE Step4_InjectionRetrieval(s3, inj, kwargs, e)
    IN  IF Raised(s4) THEN s4
        ELSE [s4 EXCEPT !.ret = NoTable, !.ret_registry = Some(s4.results)]

(***************************************************************************)
(* Arguments the callers pass                                              *)
(***************************************************************************)
\* an output_dir argument: None, '' or a directory
OptDirs == {None, Some(<<>>)} \cup {Some(d) : d \in OtherDirs}
OptSnippetDirs == {None} \cup {Some(d) : d \in SnippetDirs}
OptSnippetLists == {None} \cup {Some(l) : l \in SnippetLists}
OptNInjections == {None} \cup {Some(n) : n \in 0..MaxNInjections}

\* vet_candidates_kwargs mappings: the two keys that decide what is vetted,
\* each left out, None or a value (output_dir is explored on vet_candidates
\* itself)
VetKwargs ==
    {Restrict(r, D) :
        r \in [event_snippets : OptSnippetLists, event_snippets_dir : OptSnippetDirs],
        D \in SUBSET {"event_snippets", "event_snippets_dir"}}

\* find_transits_kwargs and injection_retrieval_kwargs mappings
FindKwargs == {[output_dir |-> o] : o \in OptDirs}
InjectionKwargs ==
    {[n_injections |-> n] : n \in OptNInjections} \cup
    {[output_dir |-> o] : o \in OptDirs}

\* the per-stage option mappings of a run call: none, or the mapping of one
\* stage that the flags let run look at.  mask_eclipses_kwargs is handed to
\* mask_all unread.
RunKwargs(find, vet, inj) ==
    {EmptyDict} \cup
    (IF find /\ vet THEN {[vet_candidates_kwargs |-> k] : k \in VetKwargs} ELSE {}) \cup
    (IF find /\ ~vet /\ ~inj THEN {[find_transits_kwargs |-> k] : k \in FindKwargs}
     ELSE {}) \cup
    (IF inj /\ ~find /\ transit_injector
     THEN {[injection_retrieval_kwargs |-> k] : k \in InjectionKwargs} ELSE {})

(***************************************************************************)
(* utils.eclipses.  The arguments are Python floats written as decimal     *)
(* literals with two places: Num(v) is the literal v/100.  The arithmetic  *)
(* is that of float64: a double is a sign and a magnitude, a whole number  *)
(* of units of 2^-GridBits kept in three limbs <<a, b, c>> of LimbBits     *)
(* bits, a * Limb^2 + b * Limb + c, with at most Precision significant     *)
(* bits.  Every result is rounded to nearest, ties to even.                *)
(***************************************************************************)
One == 100              \* the 1 of `pos + width/2 - 1`
Pos95 == 95             \* the 0.95 of `pos > 0.95`
Pos05 == 5              \* the 0.05 of `pos < 0.05`
Precision == 53         \* significant bits of a float64
GridBits == 60          \* every double met here is a multiple of 2^-60
LimbBits == 21
Limb == 2 ^ LimbBits

NaN == [nan |-> TRUE, v |-> 0]
Num(v) == [nan |-> FALSE, v |-> v]
IsNaN(x) == x.nan                               \* np.isnan

\* magnitudes: carry or borrow from limb to limb, the top limb left as it is
Norm(a, b, c) ==
    LET c2 == c % Limb
        b1 == b + (c - c2) \div Limb
        b2 == b1 % Limb
    IN  <<a + (b1 - b2) \div Limb, b2, c2>>
BigAdd(x, y) == Norm(x[1] + y[1], x[2] + y[2], x[3] + y[3])
BigSub(x, y) == Norm(x[1] - y[1], x[2] - y[2], x[3] - y[3])      \* x >= y
BigLess(x, y) ==
    \/ x[1] < y[1]
    \/ x[1] = y[1] /\ x[2] < y[2]
    \/ x[1] = y[1] /\ x[2] = y[2] /\ x[3] < y[3]
BigZero == <<0, 0, 0>>
RECURSIVE BitLen(_)
BitLen(n) == IF n = 0 THEN 0 ELSE 1 + BitLen(n \div 2)
BigLen(m) ==
    IF m[1] > 0 THEN 2 * LimbBits + BitLen(m[1])
    ELSE IF m[2] > 0 THEN LimbBits + BitLen(m[2])
    ELSE BitLen(m[3])

\* round a magnitude to Precision significant bits, nearest, ties to even;
\* sticky: the exact value lies strictly above the magnitude given
Round53(m, sticky) ==
    LET L == BigLen(m)
    IN  IF L <= Precision THEN m
        ELSE LET p == 2 ^ (L - Precision)
                 low == m[3] % p
                 odd == (m[3] \div p) % 2 = 1
                 up == \/ 2 * low > p
                       \/ 2 * low = p /\ (sticky \/ odd)
                 base == <<m[1], m[2], m[3] - low>>
             IN  IF up THEN BigAdd(base, <<0, 0, p>>) ELSE base

\* the double nearest to n/100, n >= 0: long division of n * 2^GridBits by
\* 100, limb by limb, then rounding
FromHundredths(n) ==
    LET a0 == n * 2 ^ (GridBits - 2 * LimbBits)
        r1 == a0 % 100
        r2 == (r1 * Limb) % 100
        r3 == (r2 * Limb) % 100
    IN  Round53(<<a0 \div 100, (r1 * Limb) \div 100, (r2 * Limb) \div 100>>,
                r3 # 0)

DNaN == [nan |-> TRUE, neg |-> FALSE, mag |-> BigZero]
\* the float a literal denotes
Dbl(x) ==
    IF x.nan THEN DNaN
    ELSE [nan |-> FALSE, neg |-> x.v < 0,
          mag |-> FromHundredths(IF x.v < 0 THEN 0 - x.v ELSE x.v)]
DNeg(x) == [x EXCEPT !.neg = ~x.neg /\ x.mag # BigZero]
\* x + y
DAdd(x, y) ==
    IF x.nan \/ y.nan THEN DNaN
    ELSE LET m == IF x.neg = y.neg THEN BigAdd(x.mag, y.mag)
                  ELSE IF BigLess(x.mag, y.mag) THEN BigSub(y.mag, x.mag)
                  ELSE BigSub(x.mag, y.mag)
             s == IF x.neg = y.neg THEN x.neg
                  ELSE IF BigLess(x.mag, y.mag) THEN y.neg ELSE x.neg
             r == Round53(m, FALSE)
         IN  [nan |-> FALSE, neg |-> s /\ r # BigZero, mag |-> r]
\* x - y
DSub(x, y) == DAdd(x, DNeg(y))
\* x / 2: exact, one binary place down (the last bit of a double of this
\* range is not set)
Half(x) ==
    IF x.nan THEN DNaN
    ELSE [x EXCEPT !.mag = <<x.mag[1] \div 2,
                             x.mag[2] \div 2 + (x.mag[1] % 2) * (Limb \div 2),
                             x.mag[3] \div 2 + (x.mag[2] % 2) * (Limb \div 2)>>]
\* comparisons of floats: FALSE as soon as one side is not-a-number
Le(x, y) ==
    /\ ~x.nan /\ ~y.nan
    /\ IF x.neg # y.neg THEN x.neg
       ELSE IF x.neg THEN ~BigLess(x.mag, y.mag)
       ELSE ~BigLess(y.mag, x.mag)
Ge(x, y) == Le(y, x)
Lt(x, y) == ~x.nan /\ ~y.nan /\ ~Le(y, x)
Gt(x, y) == Lt(y, x)
IsZero(x) == ~x.nan /\ x.mag = BigZero          \* x == 0

\* np.where(flags)[0]: the 0-based positions of the TRUE flags, ascending
RECURSIVE WhereUpTo(_, _)
WhereUpTo(flags, n) ==
    IF n = 0 THEN <<>>
    ELSE LET r == WhereUpTo(flags, n - 1)
         IN  IF flags[n] THEN Append(r, n - 1) ELSE r
np_where(flags) == WhereUpTo(flags, Len(flags))

\* variant: `if not pos` style test, which also takes pos = 0 for absent
get_eclipse_indices_PosZeroAbsent(phases, pos, width) ==
    LET p == Dbl(pos)
        w == Dbl(width)
        ph == [i \in 1..Len(phases) |-> Dbl(phases[i])]
        one == Dbl(Num(One))
        lo == DSub(p, Half(w))                      \* pos - width/2
        hi == DAdd(p, Half(w))                      \* pos + width/2
    IN  IF IsNaN(p) \/ IsNaN(w) \/ IsZero(w) \/ IsZero(p)
        THEN <<>>
        ELSE IF Gt(p, Dbl(Num(Pos95)))
        THEN np_where([i \in 1..Len(ph) |->
                 Ge(ph[i], lo) \/ Le(ph[i], DSub(hi, one))])
        ELSE IF Lt(p, Dbl(Num(Pos05)))
        THEN np_where([i \in 1..Len(ph) |->
                 Ge(ph[i], DAdd(lo, one)) \/ Le(ph[i], hi)])
        ELSE np_where([i \in 1..Len(ph) |->
                 Ge(ph[i], lo) /\ Le(ph[i], hi)])

\* variant: the ends of the window are left out
get_eclipse_indices_Strict(phases, pos, width) ==
    LET p == Dbl(pos)
        w == Dbl(width)
        ph == [i \in 1..Len(phases) |-> Dbl(phases[i])]
        one == Dbl(Num(One))
        lo == DSub(p, Half(w))                      \* pos - width/2
        hi == DAdd(p, Half(w))                      \* pos + width/2
    IN  IF IsNaN(p) \/ IsNaN(w) \/ IsZero(w)
        THEN <<>>
        ELSE IF Gt(p, Dbl(Num(Pos95)))
        THEN np_where([i \in 1..Len(ph) |->
                 Gt(ph[i], lo) \/ Lt(ph[i], DSub(hi, one))])
        ELSE IF Lt(p, Dbl(Num(Pos05)))
        THEN np_where([i \in 1..Len(ph) |->
                 Gt(ph[i], DAdd(lo, one)) \/ Lt(ph[i], hi)])
        ELSE np_where([i \in 1..Len(ph) |->
                 Gt(ph[i], lo) /\ Lt(ph[i], hi)])

\* variant: the bounds are not shifted by one cycle in the two wrap branches
get_eclipse_indices_NoShift(phases, pos, width) ==
    LET p == Dbl(pos)
        w == Dbl(width)
        ph == [i \in 1..Len(phases) |-> Dbl(phases[i])]
        one == Dbl(Num(One))
        lo == DSub(p, Half(w))                      \* pos - width/2
        hi == DAdd(p, Half(w))                      \* pos + width/2
    IN  IF IsNaN(p) \/ IsNaN(w) \/ IsZero(w)
        THEN <<>>
        ELSE IF Gt(p, Dbl(Num(Pos95)))
        THEN np_where([i \in 1..Len(ph) |->
                 Ge(ph[i], lo) \/ Le(ph[i], hi)])
        ELSE IF Lt(p, Dbl(Num(Pos05)))
        THEN np_where([i \in 1..Len(ph) |->
                 Ge(ph[i], lo) \/ Le(ph[i], hi)])
        ELSE np_where([i \in 1..Len(ph) |->
                 Ge(ph[i], lo) /\ Le(ph[i], hi)])

\* the phases, pos and width are given as literals and read as floats
get_eclipse_indices(phases, pos, width) ==
    LET p == Dbl(pos)
        w == Dbl(width)
        ph == [i \in 1..Len(phases) |-> Dbl(phases[i])]
        one == Dbl(Num(One))
        lo == DSub(p, Half(w))                      \* pos - width/2
        hi == DAdd(p, Half(w))                      \* pos + width/2
    IN  IF IsNaN(p) \/ IsNaN(w) \/ IsZero(w)
        THEN <<>>
        ELSE IF Gt(p, Dbl(Num(Pos95)))
        THEN np_where([i \in 1..Len(ph) |->
                 Ge(ph[i], lo) \/ Le(ph[i], DSub(hi, one))])
        ELSE IF Lt(p, Dbl(Num(Pos05)))
        THEN np_where([i \in 1..Len(ph) |->
                 Ge(ph[i], DAdd(lo, one)) \/ Le(ph[i], hi)])
        ELSE np_where([i \in 1..Len(ph) |->
                 Ge(ph[i], lo) /\ Le(ph[i], hi)])

\* mask[idx] = True: position k + 1 of the sequence is index k of the array
SetTrue(mask, idx) ==
    [i \in 1..Len(mask) |->
        IF \E j \in 1..Len(idx) : idx[j] + 1 = i THEN TRUE ELSE mask[i]]

\* variant: the indices are taken for 1-based positions
get_eclipse_mask_OffByOne(phases, pos, width) ==
    LET idx == get_eclipse_indices(phases, pos, width)
        zeros == [i \in 1..Len(phases) |-> FALSE]
    IN  [mask |-> [i \in 1..Len(zeros) |->
                      IF \E j \in 1..Len(idx) : idx[j] = i THEN TRUE ELSE zeros[i]],
         phases |-> phases]

\* returns the mask; phases is the argument array after the call
get_eclipse_mask(phases, pos, width) ==
    LET idx == get_eclipse_indices(phases, pos, width)
        zeros == [i \in 1..Len(phases) |-> FALSE]       \* np.zeros_like
    IN  [mask |-> SetTrue(zeros, idx), phases |-> phases]

\* arguments
PosSamples == {Num(v) : v \in {0, 1, 4, 5, 6, 10, 50, 94, 95, 96, 99, 100}} \cup {NaN}
WidthSamples == {Num(v) : v \in {0, 2, 10, 40, 100}} \cup {NaN}
PhaseSamples == {Num(v) : v \in {0, 2, 5, 7, 50, 95, 98, 99}} \cup {NaN}
PhaseArrays == UNION {[1..n -> PhaseSamples] : n \in 0..MaxPhases}

EclipseOff ==
    /\ e_op = "off"
    /\ e_phases = <<>>
    /\ e_input = <<>>
    /\ e_pos = NaN
    /\ e_width = NaN
    /\ e_indices = <<>>
    /\ e_mask = <<>>

(***************************************************************************)
(* utils.eclipses.time_to_phase.  The arithmetic is that of float64.  A    *)
(* natural number of any size is the sequence of its digits to the base    *)
(* 2^BaseBits, lowest first, without leading zeros.  A float is not-a-     *)
(* number, an infinity or a number +-mant * 2^exp with mant odd (a zero:    *)
(* mant empty, exp 0, with its sign).  An operation computes its exact     *)
(* result and rounds it once to Precision significant bits, ties to even,  *)
(* gradually below 2^-1022, to infinity from 2^1024.                       *)
(***************************************************************************)
BaseBits == 15
Base == 2 ^ BaseBits
SubnormalExp == 1074    \* the last place of a float64 is never below 2^-1074
OverflowExp == 1024     \* a float64 is below 2^1024
Abs(n) == IF n < 0 THEN 0 - n ELSE n
Least(a, b) == IF a <= b THEN a ELSE b
Greatest(a, b) == IF a >= b THEN a ELSE b

\* naturals
Digit(x, i) == IF i >= 1 /\ i <= Len(x) THEN x[i] ELSE 0
Trim(x) ==
    LET nz == {i \in 1..Len(x) : x[i] # 0}
    IN  IF nz = {} THEN <<>>
        ELSE SubSeq(x, 1, CHOOSE i \in nz : \A j \in nz : j <= i)
RECURSIVE Digits(_)
Digits(n) == IF n = 0 THEN <<>> ELSE <<n % Base>> \o Digits(n \div Base)
\* x + y: digit sums, each with the carry that reaches it
NAdd(x, y) ==
    LET n == Greatest(Len(x), Len(y)) + 1
        s == [i \in 1..n |-> Digit(x, i) + Digit(y, i)]
        carry(i) == \E j \in 1..(i - 1) :
                        /\ s[j] >= Base
                        /\ \A k \in (j + 1)..(i - 1) : s[k] = Base - 1
    IN  Trim([i \in 1..n |-> (s[i] + (IF carry(i) THEN 1 ELSE 0)) % Base])
\* x - y for x >= y: digit differences, each with the borrow that reaches it
NSub(x, y) ==
    LET d == [i \in 1..Len(x) |-> x[i] - Digit(y, i)]
        borrow(i) == \E j \in 1..(i - 1) :
                         /\ d[j] < 0
                         /\ \A k \in (j + 1)..(i - 1) : d[k] = 0
    IN  Trim([i \in 1..Len(x) |->
                 (d[i] - (IF borrow(i) THEN 1 ELSE 0)) % Base])
NLess(x, y) ==
    \/ Len(x) < Len(y)
    \/ /\ Len(x) = Len(y)
       /\ \E i \in 1..Len(x) :
             /\ x[i] < y[i]
             /\ \A k \in (i + 1)..Len(x) : x[k] = y[k]
\* x * d for one digit d
NMulDigit(x, d) ==
    NAdd([i \in 1..Len(x) |-> (x[i] * d) % Base],
         <<0>> \o [i \in 1..Len(x) |-> (x[i] * d) \div Base])
RECURSIVE MulFrom(_, _, _)
MulFrom(x, y, j) ==
    IF j > Len(y) THEN <<>>
    ELSE NAdd(NMulDigit(x, y[j]), <<0>> \o MulFrom(x, y, j + 1))
NMul(x, y) == Trim(MulFrom(x, y, 1))
\* x * 2^k and the whole part of x / 2^k
NShl(x, k) ==
    Trim([i \in 1..(k \div BaseBits) |-> 0] \o NMulDigit(x, 2 ^ (k % BaseBits)))
NShr(x, k) ==
    LET q == k \div BaseBits
        r == k % BaseBits
    IN  Trim([i \in 1..(Len(x) - q) |->
                 (x[i + q] \div 2 ^ r)
                 + (Digit(x, i + q + 1) % 2 ^ r) * 2 ^ (BaseBits - r)])
\* x mod 2^k
NLow(x, k) == NSub(x, NShl(NShr(x, k), k))
NBit(x, i) == (Digit(x, i \div BaseBits + 1) \div 2 ^ (i % BaseBits)) % 2
NBitLen(x) ==
    IF Len(x) = 0 THEN 0 ELSE BaseBits * (Len(x) - 1) + BitLen(x[Len(x)])
RECURSIVE IntTrailingZeros(_)
IntTrailingZeros(n) == IF n % 2 = 1 THEN 0 ELSE 1 + IntTrailingZeros(n \div 2)
NTrailingZeros(x) ==                                            \* x # 0
    LET i == CHOOSE i \in 1..Len(x) : x[i] # 0 /\ \A j \in 1..(i - 1) : x[j] = 0
    IN  BaseBits * (i - 1) + IntTrailingZeros(x[i])
\* the largest digit d in lo..hi with d * y <= r
RECURSIVE QuotientDigit(_, _, _, _)
QuotientDigit(r, y, lo, hi) ==
    IF lo = hi THEN lo
    ELSE LET mid == (lo + hi + 1) \div 2
         IN  IF NLess(r, NMulDigit(y, mid)) THEN QuotientDigit(r, y, lo, mid - 1)
             ELSE QuotientDigit(r, y, mid, hi)
\* long division of the digits i.. of x by y # 0
RECURSIVE DivFrom(_, _, _)
DivFrom(x, y, i) ==
    IF i > Len(x) THEN [q |-> <<>>, r |-> <<>>]
    ELSE LET up == DivFrom(x, y, i + 1)
             r2 == Trim(<<x[i]>> \o up.r)
             d == QuotientDigit(r2, y, 0, Base - 1)
         IN  [q |-> Trim(<<d>> \o up.q), r |-> NSub(r2, NMulDigit(y, d))]
NDivMod(x, y) == DivFrom(x, y, 1)

\* floats
FNaN == [kind |-> "nan", neg |-> FALSE, mant |-> <<>>, exp |-> 0]
FInf(neg) == [kind |-> "inf", neg |-> neg, mant |-> <<>>, exp |-> 0]
\* 0.0 and -0.0
SignedZero(neg) == [kind |-> "num", neg |-> neg, mant |-> <<>>, exp |-> 0]
FZero == SignedZero(FALSE)
\* +-mant * 2^exp with the mantissa made odd
Canon(neg, mant, exp) ==
    IF mant = <<>> THEN SignedZero(neg)
    ELSE LET tz == NTrailingZeros(mant)
         IN  [kind |-> "num", neg |-> neg, mant |-> NShr(mant, tz),
              exp |-> exp + tz]
\* the float m * 2^e, for an integer m of at most Precision bits
Flt(m, e) == Canon(m < 0, Digits(Abs(m)), e)
IsNum(x) == x.kind = "num"
FIsZero(x) == x.kind = "num" /\ x.mant = <<>>
FNeg(x) == [x EXCEPT !.neg = ~x.neg /\ x.kind # "nan"]

\* exact sum and product of two numbers; a zero sum is -0.0 only when both
\* terms are -0.0, a zero product has the sign of the product
XAdd(a, b) ==
    LET e == Least(a.exp, b.exp)
        ma == NShl(a.mant, a.exp - e)
        mb == NShl(b.mant, b.exp - e)
    IN  IF FIsZero(a) /\ FIsZero(b) THEN SignedZero(a.neg /\ b.neg)
        ELSE IF FIsZero(a) THEN b
        ELSE IF FIsZero(b) THEN a
        ELSE IF a.neg = b.neg THEN Canon(a.neg, NAdd(ma, mb), e)
        ELSE IF ma = mb THEN FZero
        ELSE IF NLess(ma, mb) THEN Canon(b.neg, NSub(mb, ma), e)
        ELSE Canon(a.neg, NSub(ma, mb), e)
XMul(a, b) == Canon(a.neg # b.neg, NMul(a.mant, b.mant), a.exp + b.exp)

\* the float nearest to +-mant * 2^exp, or to a value just above it in
\* magnitude (sticky; then the last bits of mant are beyond the precision)
RoundFloat(neg, mant, exp, sticky) ==
    LET L == NBitLen(mant)
        s == Greatest(L - Precision, 0 - SubnormalExp - exp)
        q == NShr(mant, s)
        up == /\ NBit(mant, s - 1) = 1
              /\ (sticky \/ NLow(mant, s - 1) # <<>> \/ NBit(q, 0) = 1)
        m == IF s <= 0 THEN mant ELSE IF up THEN NAdd(q, <<1>>) ELSE q
        e == IF s <= 0 THEN exp ELSE exp + s
    IN  IF NBitLen(m) + e > OverflowExp THEN FInf(neg) ELSE Canon(neg, m, e)

FAdd(a, b) ==
    IF a.kind = "nan" \/ b.kind = "nan" THEN FNaN
    ELSE IF a.kind = "inf" /\ b.kind = "inf"
    THEN (IF a.neg = b.neg THEN a ELSE FNaN)
    ELSE IF a.kind = "inf" THEN a
    ELSE IF b.kind = "inf" THEN b
    ELSE LET x == XAdd(a, b) IN RoundFloat(x.neg, x.mant, x.exp, FALSE)
FSub(a, b) == FAdd(a, FNeg(b))
FMul(a, b) ==
    IF a.kind = "nan" \/ b.kind = "nan" THEN FNaN
    ELSE IF a.kind = "inf" \/ b.kind = "inf"
    THEN (IF FIsZero(a) \/ FIsZero(b) THEN FNaN ELSE FInf(a.neg # b.neg))
    ELSE LET x == XMul(a, b) IN RoundFloat(x.neg, x.mant, x.exp, FALSE)
\* a / b as numpy divides: a zero divisor gives an infinity or not-a-number
FDiv(a, b) ==
    IF a.kind = "nan" \/ b.kind = "nan" THEN FNaN
    ELSE IF a.kind = "inf"
    THEN (IF b.kind = "inf" THEN FNaN ELSE FInf(a.neg # b.neg))
    ELSE IF b.kind = "inf" THEN SignedZero(a.neg # b.neg)
    ELSE IF FIsZero(b)
    THEN (IF FIsZero(a) THEN FNaN ELSE FInf(a.neg # b.neg))
    ELSE IF FIsZero(a) THEN SignedZero(a.neg # b.neg)
    ELSE LET k == Greatest(0, Precision + 2 + NBitLen(b.mant) - NBitLen(a.mant))
             d == NDivMod(NShl(a.mant, k), b.mant)
         IN  RoundFloat(a.neg # b.neg, d.q, a.exp - b.exp - k, d.r # <<>>)
\* C fmod(a, 1.0): exact, with the sign of a
Fmod1(a) ==
    IF a.kind # "num" THEN FNaN
    ELSE IF a.exp >= 0 THEN SignedZero(a.neg)
    ELSE Canon(a.neg, NLow(a.mant, 0 - a.exp), a.exp)
\* a % 1.0 on floats: fmod, moved up by the divisor when it is negative; a
\* zero remainder takes the sign of the divisor
Remainder1(a) ==
    LET mod == Fmod1(a)
    IN  IF mod.kind # "num" THEN mod
        ELSE IF FIsZero(mod) THEN FZero
        ELSE IF mod.neg THEN FAdd(mod, Flt(1, 0))
        ELSE mod

time_to_phase(times, period, t0, centre) ==
    LET start_phase == FSub(centre, Flt(1, 0 - 1))
        t0_ == FAdd(t0, FMul(start_phase, period))
    IN  FAdd(Remainder1(FDiv(FSub(times, t0_), period)), start_phase)

\* the float a decimal literal n/d denotes, d a power of ten
Dec(n, d) == FDiv(Flt(n, 0), Flt(d, 0))
TimeSamples ==
    {Flt(0 - 1, 0 - 60), Flt(0, 0), Dec(1, 10), Dec(11, 10), Flt(1, 0 - 2),
     Flt(1, 0), Flt(4, 0), Flt(0 - 1, 0 - 1), Flt(5, 0 - 1)}
PeriodSamples == {Flt(1, 0 - 1), Flt(1, 0), Flt(3, 0), Flt(0 - 2, 0)}
EpochSamples == {Flt(0, 0), SignedZero(TRUE), Flt(1, 0 - 2), Flt(1, 0)}
CentreSamples == {Flt(0, 0), Flt(1, 0 - 1), Flt(1, 0)}

PhaseOff ==
    /\ p_op = "off"
    /\ p_time = FZero
    /\ p_period = Flt(1, 0)
    /\ p_t0 = FZero
    /\ p_centre = Flt(1, 0 - 1)
    /\ p_phase = FZero

(***************************************************************************)
(* MonoCBPPipeline.__init__, lines 57-61: the output directory             *)
(***************************************************************************)
Constructions == 1..NConstructions
Files == 1..MaxFiles

CtorOff ==
    /\ c_pc = [p \in Constructions |-> "off"]
    /\ c_exists = TRUE
    /\ c_contents = {}

(***************************************************************************)
(* MonoCBPPipeline.__init__, line 55: the configuration.  A configuration  *)
(* is a tree: a leaf holds an option value, a mapping holds named          *)
(* subtrees.  get_default_config and merge_config live in mono_cbp.config. *)
(***************************************************************************)
Leaf(v) == [kind |-> "leaf", v |-> v, items |-> EmptyDict]
Map(items) == [kind |-> "map", v |-> 0, items |-> items]

\* the defaults: stages, each a mapping of options
get_default_config ==
    Map([transit_finding |->
             Map([mad_threshold |-> Leaf(3), detrending_method |-> Leaf(1)]),
         injection_retrieval |->
             Map([n_injections |-> Leaf(MaxNInjections)])])

\* recursive structural merge; builds a new tree
RECURSIVE merge_config(_, _)
merge_config(user_config, default_config) ==
    Map([k \in DOMAIN user_config.items \cup DOMAIN default_config.items |->
            IF k \notin DOMAIN user_config.items THEN default_config.items[k]
            ELSE IF k \notin DOMAIN default_config.items THEN user_config.items[k]
            ELSE IF /\ user_config.items[k].kind = "map"
                    /\ default_config.items[k].kind = "map"
            THEN merge_config(user_config.items[k], default_config.items[k])
            ELSE user_config.items[k]])

\* `if config`: neither None nor an empty mapping
Truthy(user) == ~IsNone(user) /\ DOMAIN Value(user).items # {}

\* variant: a configuration the user gives is taken as it is
BuildConfig_UserOnly(user) ==
    [config |-> IF Truthy(user) THEN Value(user) ELSE get_default_config,
     user |-> user,
     default |-> get_default_config]

\* line 55: self.config, with the two inputs as the construction leaves them
BuildConfig(user) ==
    [config |-> IF Truthy(user)
                THEN merge_config(Value(user), get_default_config)
                ELSE get_default_config,
     user |-> user,
     default |-> get_default_config]

\* configurations users give: any of the stages, any of their options, and a
\* stage of their own
UserValues == {0, 7}
UserStage(options) ==
    {Map(Restrict(f, D)) :
        f \in [options -> {Leaf(v) : v \in UserValues}], D \in SUBSET options}
UserMappings ==
    {Map(Restrict(r, D)) :
        r \in [transit_finding :
                   UserStage({"mad_threshold", "detrending_method"}),
               injection_retrieval : UserStage({"n_injections"}),
               plotting : UserStage({"dpi"})],
        D \in SUBSET {"transit_finding", "injection_retrieval", "plotting"}}
UserConfigs == {None} \cup {Some(m) : m \in UserMappings}

ConfigOff ==
    /\ g_op = "off"
    /\ g_user_in = None
    /\ g_user = None
    /\ g_default = get_default_config
    /\ g_config = get_default_config

(***************************************************************************)
(* State machine                                                           *)
(***************************************************************************)
NoCall == [op |-> "none"]
Idle == call.op = "none"

\* MonoCBPPipeline.__init__
Init ==
    /\ transit_injector \in BOOLEAN
    /\ config \in Configs
    /\ results = EmptyDict
    /\ finder_results \in {EmptyDict, [event_snippets |-> <<>>]}
    /\ call = NoCall
    /\ trace = <<>>
    /\ outcome = "none"
    /\ ret = NoTable
    /\ ret_registry = None
    /\ warnings = 0
    /\ config_read = FALSE
    /\ caller_kwargs = None
    /\ EclipseOff /\ PhaseOff /\ CtorOff /\ ConfigOff

\* the call c ends in s: self and what the caller observes
Finish(c, s) ==
    /\ call' = c
    /\ results' = s.results
    /\ finder_results' = s.finder_results
    /\ trace' = s.trace
    /\ outcome' = IF Raised(s) THEN s.exc ELSE "returned"
    /\ ret' = s.ret
    /\ ret_registry' = s.ret_registry
    /\ warnings' = s.warnings
    /\ config_read' = s.config_read
    /\ caller_kwargs' = s.vet_kwargs
    /\ UNCHANGED <<transit_injector, config>>
    /\ UNCHANGED other_vars

Self == Enter(results, finder_results)

Run ==
    /\ Idle
    /\ \E find \in BOOLEAN, vet \in BOOLEAN, inj \in BOOLEAN :
       \E kwargs \in RunKwargs(find, vet, inj) :
       \E m \in MaskBehaviours :
       \E sb \in (IF m /\ find THEN SearchBehaviours ELSE {UnusedSearch}) :
       \E vb \in (IF m /\ find /\ vet /\ sb.ok THEN TableBehaviours ELSE {Unused}) :
       \E ib \in (IF m /\ inj /\ transit_injector /\ (find => sb.ok)
                     /\ ((find /\ vet) => vb.ok)
                  THEN TableBehaviours ELSE {Unused}) :
          Finish([op |-> "run", find_transits |-> find, vet_candidates |-> vet,
                  injection_retrieval |-> inj, kwargs |-> kwargs],
                 run(Self, find, vet, inj, kwargs,
                     [mask |-> m, search |-> sb, vet |-> vb, inj |-> ib]))

MaskEclipses ==
    /\ Idle
    /\ \E m \in MaskBehaviours :
          Finish([op |-> "mask_eclipses"], mask_eclipses(Self, m))

FindTransits ==
    /\ Idle
    /\ \E output_dir \in OptDirs, c \in SearchBehaviours :
          Finish([op |-> "find_transits", output_dir |-> output_dir],
                 find_transits(Self, output_dir, c))

VetCandidates ==
    /\ Idle
    /\ \E event_snippets \in OptSnippetLists,
          event_snippets_dir \in OptSnippetDirs,
          output_dir \in OptDirs, c \in TableBehaviours :
          Finish([op |-> "vet_candidates", event_snippets |-> event_snippets,
                  event_snippets_dir |-> event_snippets_dir,
                  output_dir |-> output_dir],
                 vet_candidates(Self, event_snippets, event_snippets_dir,
                                output_dir, c))

RunInjectionRetrieval ==
    /\ Idle
    /\ \E n_injections \in OptNInjections, output_dir \in OptDirs :
       \E c \in (IF transit_injector THEN TableBehaviours ELSE {Unused}) :
          Finish([op |-> "run_injection_retrieval", n_injections |-> n_injections,
                  output_dir |-> output_dir],
                 run_injection_retrieval(Self, n_injections, output_dir, c))

\* control is back with the caller; the record of the finished call is dropped
Return ==
    /\ ~Idle
    /\ call' = NoCall
    /\ trace' = <<>>
    /\ outcome' = "none"
    /\ ret' = NoTable
    /\ ret_registry' = None
    /\ warnings' = 0
    /\ config_read' = FALSE
    /\ caller_kwargs' = None
    /\ UNCHANGED <<transit_injector, config, results, finder_results>>
    /\ UNCHANGED other_vars

Next ==
    \/ Run
    \/ MaskEclipses
    \/ FindTransits
    \/ VetCandidates
    \/ RunInjectionRetrieval
    \/ Return

Spec == Init /\ [][Next]_vars

(***************************************************************************)
(* utils.eclipses: the arguments are drawn, then one function is applied   *)
(***************************************************************************)
PipelineOff ==
    /\ transit_injector = FALSE
    /\ config \in Configs
    /\ results = EmptyDict
    /\ finder_results = EmptyDict
    /\ call = NoCall
    /\ trace = <<>>
    /\ outcome = "none"
    /\ ret = NoTable
    /\ ret_registry = None
    /\ warnings = 0
    /\ config_read = FALSE
    /\ caller_kwargs = None

InitEclipse ==
    /\ PipelineOff
    /\ e_op = "args"
    /\ e_phases \in PhaseArrays
    /\ e_input = e_phases
    /\ e_pos \in PosSamples
    /\ e_width \in WidthSamples
    /\ e_indices = <<>>
    /\ e_mask = <<>>
    /\ PhaseOff /\ CtorOff /\ ConfigOff

GetEclipseIndices ==
    /\ e_op = "args"
    /\ e_op' = "indices"
    /\ e_indices' = get_eclipse_indices(e_phases, e_pos, e_width)
    /\ UNCHANGED <<e_phases, e_input, e_pos, e_width, e_mask>>
    /\ UNCHANGED <<pipeline_vars, phase_vars, ctor_vars, config_vars>>

GetEclipseMask ==
    /\ e_op = "args"
    /\ e_op' = "mask"
    /\ LET r == get_eclipse_mask(e_phases, e_pos, e_width)
       IN  e_mask' = r.mask /\ e_phases' = r.phases
    /\ UNCHANGED <<e_input, e_pos, e_width, e_indices>>
    /\ UNCHANGED <<pipeline_vars, phase_vars, ctor_vars, config_vars>>

NextEclipse == GetEclipseIndices \/ GetEclipseMask

SpecEclipse == InitEclipse /\ [][NextEclipse]_vars

(***************************************************************************)
(* time_to_phase: the arguments are drawn, then the function is applied    *)
(***************************************************************************)
InitPhase ==
    /\ PipelineOff /\ EclipseOff /\ CtorOff /\ ConfigOff
    /\ p_op = "args"
    /\ p_time \in TimeSamples
    /\ p_period \in PeriodSamples
    /\ p_t0 \in EpochSamples
    /\ p_centre \in CentreSamples
    /\ p_phase = FZero

TimeToPhase ==
    /\ p_op = "args"
    /\ p_op' = "phase"
    /\ p_phase' = time_to_phase(p_time, p_period, p_t0, p_centre)
    /\ UNCHANGED <<p_time, p_period, p_t0, p_centre>>
    /\ UNCHANGED <<pipeline_vars, eclipse_vars, ctor_vars, config_vars>>

NextPhase == TimeToPhase

SpecPhase == InitPhase /\ [][NextPhase]_vars

(***************************************************************************)
(* Constructions of orchestrators with the same output_dir, as threads or  *)
(* processes the scheduler interleaves at will (one after another          *)
(* included), next to other programs that write into the directory.        *)
(***************************************************************************)
InitCtor ==
    /\ PipelineOff /\ EclipseOff /\ PhaseOff /\ ConfigOff
    /\ c_pc = [p \in Constructions |-> "start"]
    /\ c_exists \in BOOLEAN
    /\ c_contents \in SUBSET Files
    /\ ~c_exists => c_contents = {}

\* line 59: if not os.path.exists(output_dir)
CheckExists(p) ==
    /\ c_pc[p] = "start"
    /\ c_pc' = [c_pc EXCEPT ![p] = IF c_exists THEN "done" ELSE "makedirs"]
    /\ UNCHANGED <<c_exists, c_contents>>
    /\ UNCHANGED <<pipeline_vars, eclipse_vars, phase_vars, config_vars>>

\* line 60: os.makedirs(output_dir), which raises FileExistsError on a
\* directory that exists
MakeDirs(p) ==
    /\ c_pc[p] = "makedirs"
    /\ IF c_exists
       THEN /\ c_pc' = [c_pc EXCEPT ![p] = "FileExistsError"]
            /\ UNCHANGED <<c_exists, c_contents>>
       ELSE /\ c_pc' = [c_pc EXCEPT ![p] = "done"]
            /\ c_exists' = TRUE
            /\ c_contents' = {}
    /\ UNCHANGED <<pipeline_vars, eclipse_vars, phase_vars, config_vars>>

\* another program puts a file into the directory
WriteFile ==
    /\ c_exists
    /\ \E f \in Files \ c_contents : c_contents' = c_contents \cup {f}
    /\ UNCHANGED <<c_pc, c_exists>>
    /\ UNCHANGED <<pipeline_vars, eclipse_vars, phase_vars, config_vars>>

NextCtor ==
    \/ \E p \in Constructions : CheckExists(p)
    \/ \E p \in Constructions : MakeDirs(p)
    \/ WriteFile

SpecCtor == InitCtor /\ [][NextCtor]_vars

(***************************************************************************)
(* The configuration of a construction: the config argument is drawn, then *)
(* line 55 is applied                                                      *)
(***************************************************************************)
InitConfig ==
    /\ PipelineOff /\ EclipseOff /\ PhaseOff /\ CtorOff
    /\ g_op = "args"
    /\ g_user_in \in UserConfigs
    /\ g_user = g_user_in
    /\ g_default = get_default_config
    /\ g_config = get_default_config

Construct ==
    /\ g_op = "args"
    /\ g_op' = "built"
    /\ LET b == BuildConfig(g_user)
       IN  /\ g_config' = b.config
           /\ g_user' = b.user
           /\ g_default' = b.default
    /\ UNCHANGED g_user_in
    /\ UNCHANGED <<pipeline_vars, eclipse_vars, phase_vars, ctor_vars>>

NextConfig == Construct

SpecConfig == InitConfig /\ [][NextConfig]_vars

(***************************************************************************)
(* Vocabulary of the properties                                            *)
(***************************************************************************)
IsRun == call.op = "run"
Events(tr, stage) == {i \in 1..Len(tr) : tr[i].stage = stage}
Invoked(tr, stage) == Events(tr, stage) # {}
Returned(tr, stage) == \E i \in Events(tr, stage) : tr[i].returned
AllReturned(tr) == \A i \in 1..Len(tr) : tr[i].returned
StageOfKey(k) ==
    CASE k = "transit_finding" -> "search"
      [] k = "vetting" -> "vet"
      [] k = "injection_retrieval" -> "inject"
DirectStageOps == {"find_transits", "vet_candidates", "run_injection_retrieval"}

\* C1: in every call of run, whatever the three flags are, the masking
\* collaborator is invoked exactly once, as the first collaborator, and any
\* other collaborator is invoked only after the masking has returned.
C1_MaskingFirst ==
    IsRun =>
        /\ Cardinality(Events(trace, "mask")) = 1
        /\ trace[1].stage = "mask"
        /\ (Len(trace) > 1 => trace[1].returned)

\* a run in which masking returned and the search, then the vetting followed
C1_Witness ==
    /\ IsRun
    /\ Len(trace) >= 3
    /\ trace[1].stage = "mask" /\ trace[1].returned
    /\ trace[2].stage = "search"
    /\ trace[3].stage = "vet"

\* C2: during a call of run the vetting collaborator is invoked exactly when
\* vet_candidates and find_transits are both true (and the call got that far:
\* the search of that call returned); when it is invoked, the search of the
\* same call returned before it and its table is in the registry.
C2_VettingIffBoth ==
    IsRun =>
        /\ Invoked(trace, "vet") <=>
              (call.vet_candidates /\ call.find_transits /\ Returned(trace, "search"))
        /\ (outcome = "returned" =>
              (Invoked(trace, "vet") <=> (call.vet_candidates /\ call.find_transits)))
        /\ \A j \in Events(trace, "vet") :
              \E i \in Events(trace, "search") :
                 /\ i < j
                 /\ trace[i].returned
                 /\ DictGet(results, "transit_finding", NoTable) = trace[i].table

\* a run with both flags vetted after its search, whose table is on record
C2_Witness ==
    /\ IsRun /\ call.vet_candidates /\ call.find_transits
    /\ outcome = "returned"
    /\ Len(trace) = 3
    /\ trace[2].stage = "search" /\ trace[3].stage = "vet"
    /\ results.transit_finding = trace[2].table

\* C3 as stated: after run(find_transits=False, vet_candidates=True) returns,
\* on an orchestrator in any reachable state, vetting was not executed and the
\* returned registry has no 'vetting' entry.
C3_Original ==
    (IsRun /\ ~call.find_transits /\ call.vet_candidates /\ outcome = "returned") =>
        /\ ~Invoked(trace, "vet")
        /\ "vetting" \notin DOMAIN Value(ret_registry)

\* C3 amended: a call run(find_transits=False, vet_candidates=True) does not
\* execute vetting and leaves the registry's 'vetting' entry as it found it:
\* absent if it was absent (as on a fresh orchestrator), the earlier entry if
\* an earlier run recorded one; the registry it returns is that registry.
C3_NoVettingWithoutSearch ==
    [][(Idle /\ call'.op = "run" /\ ~call'.find_transits /\ call'.vet_candidates) =>
          /\ ~Invoked(trace', "vet")
          /\ ("vetting" \in DOMAIN results' <=> "vetting" \in DOMAIN results)
          /\ ("vetting" \in DOMAIN results => results'.vetting = results.vetting)
          /\ (outcome' = "returned" => ret_registry' = Some(results'))]_vars

\* run(False, True) has returned on an orchestrator that vetted earlier
C3_Witness ==
    /\ IsRun /\ ~call.find_transits /\ call.vet_candidates
    /\ outcome = "returned"
    /\ "vetting" \in DOMAIN Value(ret_registry)

\* C4: run(injection_retrieval=True) on an orchestrator built without transit
\* models never invokes the injection collaborator and never fails with the
\* configuration error; unless a collaborator of another stage raises, it
\* returns having logged one warning and executed the other requested stages,
\* and the registry it returns has no 'injection_retrieval' key.
C4_SoftSkip ==
    (IsRun /\ call.injection_retrieval /\ ~transit_injector) =>
        /\ ~Invoked(trace, "inject")
        /\ outcome # "ValueError"
        /\ "injection_retrieval" \notin DOMAIN results
        /\ (AllReturned(trace) =>
              /\ outcome = "returned"
              /\ warnings = 1
              /\ ret_registry = Some(results)
              /\ Returned(trace, "mask")
              /\ (call.find_transits => Returned(trace, "search"))
              /\ ((call.find_transits /\ call.vet_candidates) => Returned(trace, "vet")))

\* such a run returned after masking, search and vetting, with the warning
C4_Witness ==
    /\ IsRun /\ call.injection_retrieval /\ ~transit_injector
    /\ outcome = "returned"
    /\ warnings = 1
    /\ Returned(trace, "vet")

\* C5: run_injection_retrieval called directly on an orchestrator built
\* without transit models raises the configuration error for every argument
\* combination, with no collaborator invoked, the configuration not read, and
\* the registry unchanged.
C5_HardError ==
    [][(Idle /\ call'.op = "run_injection_retrieval" /\ ~transit_injector) =>
          /\ outcome' = "ValueError"
          /\ trace' = <<>>
          /\ ~config_read'
          /\ results' = results
          /\ ret' = NoTable]_vars

\* the error was raised with n_injections omitted and a registry with entries
C5_Witness ==
    /\ call.op = "run_injection_retrieval"
    /\ ~transit_injector
    /\ outcome = "ValueError"
    /\ IsNone(call.n_injections)
    /\ ~IsNone(call.output_dir)
    /\ DOMAIN results = {"transit_finding", "vetting"}

\* C6 as stated: vet_candidates resolves its input in three tiers: supplied
\* in-memory snippets (even an empty list); otherwise the snippets of the
\* transit finder's last result, if it holds any; only otherwise the directory.
C6_Original ==
    \A i \in Events(trace, "vet") :
        LET ev == trace[i]
            last == DictGet(finder_results, "event_snippets", <<>>)
        IN  IF ~IsNone(ev.args.event_snippets)
            THEN ev.kind = "snippets" /\ ev.snippets = Value(ev.args.event_snippets)
            ELSE IF Len(last) > 0
            THEN ev.kind = "snippets" /\ ev.snippets = last
            ELSE ev.kind = "directory"

\* C6 amended: vet_candidates resolves its input in two tiers: supplied
\* in-memory snippets are used (even an empty list); otherwise the file-based
\* snippet directory is used (the one given, if one is given), whatever the
\* transit finder's last result holds.
C6_TwoTierResolution ==
    \A i \in Events(trace, "vet") :
        LET ev == trace[i]
        IN  IF ~IsNone(ev.args.event_snippets)
            THEN ev.kind = "snippets" /\ ev.snippets = Value(ev.args.event_snippets)
            ELSE /\ ev.kind = "directory"
                 /\ (~IsNone(ev.args.event_snippets_dir) =>
                        ev.path = Value(ev.args.event_snippets_dir))

\* vet_candidates called without snippets read the directory although the
\* transit finder's last result holds a snippet
C6_Witness ==
    /\ call.op = "vet_candidates"
    /\ IsNone(call.event_snippets)
    /\ Len(DictGet(finder_results, "event_snippets", <<>>)) > 0
    /\ trace[1].kind = "directory"

KeyOfOp(op) ==
    CASE op = "find_transits" -> "transit_finding"
      [] op = "vet_candidates" -> "vetting"
      [] op = "run_injection_retrieval" -> "injection_retrieval"

\* C7 as stated: each stage entry operation, invoked directly, stores the
\* table it returns in the registry under its stage's key.
C7_Original ==
    (call.op \in DirectStageOps /\ outcome = "returned") =>
        DictGet(results, KeyOfOp(call.op), NoTable) = ret

\* C7 amended: a stage entry operation invoked directly hands the
\* collaborator's table back to its caller and leaves the registry unchanged;
\* it is run that stores the table of each stage it executes, under
\* 'transit_finding', 'vetting' and 'injection_retrieval'.
C7_RunStoresTables ==
    [][Idle =>
          /\ (call'.op \in DirectStageOps \cup {"mask_eclipses"} => results' = results)
          /\ ((call'.op \in DirectStageOps /\ outcome' = "returned") =>
                 /\ ret' \in Tables
                 /\ ret' = trace'[Len(trace')].table)
          /\ (call'.op = "run" =>
                 \A k \in {"transit_finding", "vetting", "injection_retrieval"} :
                    \A i \in Events(trace', StageOfKey(k)) :
                       trace'[i].returned =>
                          DictGet(results', k, NoTable) = trace'[i].table)]_vars

\* find_transits called directly returned a table the registry does not hold
C7_Witness ==
    /\ call.op = "find_transits"
    /\ outcome = "returned"
    /\ ret \in Tables
    /\ "transit_finding" \notin DOMAIN results

C8_Step ==
    \A k \in DOMAIN results :
        /\ k \in DOMAIN results'
        /\ (results'[k] # results[k] =>
               call'.op = "run" /\ Returned(trace', StageOfKey(k)))
        /\ ((call'.op = "run" /\ outcome' = "returned"
                /\ ~Invoked(trace', StageOfKey(k))) =>
               Value(ret_registry')[k] = results[k])

\* C8: the registry starts empty; no operation removes a key; the value under
\* a stage's key changes only in a call that executes that stage again; a run
\* that skips a stage returns a registry that still holds the earlier entry.
C8_RegistryAccumulates == results = EmptyDict /\ [][C8_Step]_vars

\* a run that skipped the search returned the entry of an earlier search
C8_Witness ==
    /\ IsRun /\ ~call.find_transits
    /\ outcome = "returned"
    /\ "transit_finding" \in DOMAIN Value(ret_registry)

\* C9: during a call of run the transit-search collaborator is invoked at most
\* once, and exactly when find_transits is true (and the masking returned);
\* the table it returned is the 'transit_finding' value of the registry.
C9_SearchIffFlag ==
    IsRun =>
        /\ Cardinality(Events(trace, "search")) <= 1
        /\ Invoked(trace, "search") <=> (call.find_transits /\ Returned(trace, "mask"))
        /\ (outcome = "returned" => (Invoked(trace, "search") <=> call.find_transits))
        /\ \A i \in Events(trace, "search") :
              trace[i].returned =>
                 DictGet(results, "transit_finding", NoTable) = trace[i].table
        /\ ((outcome = "returned" /\ call.find_transits) =>
              /\ Returned(trace, "search")
              /\ ret_registry = Some(results))

\* a run with find_transits returned the table of its search
C9_Witness ==
    /\ IsRun /\ call.find_transits
    /\ outcome = "returned"
    /\ trace[2].stage = "search"
    /\ Value(ret_registry).transit_finding = trace[2].table

\* C10 as stated: with no in-memory snippets and no snippet directory, the
\* directory handed to the comparator is '<output location of the
\* call>/event_snippets'.
C10_Original ==
    \A i \in Events(trace, "vet") :
        (IsNone(trace[i].args.event_snippets)
            /\ IsNone(trace[i].args.event_snippets_dir)) =>
           /\ trace[i].kind = "directory"
           /\ trace[i].path = Join(trace[i].output_dir, "event_snippets")

\* the position in tr of the collaborator invocation that raised, as a set
Failing(tr) == {i \in 1..Len(tr) : ~tr[i].returned}
KeyOfStage(stage) ==
    CASE stage = "search" -> "transit_finding"
      [] stage = "vet" -> "vetting"
      [] stage = "inject" -> "injection_retrieval"
      [] OTHER -> "none"

\* C11: run catches no exception of a collaborator it invokes: if masking,
\* the search or the vetting raises, run ends with that exception, the
\* failing invocation is the last one of the call, the registry entry of the
\* failing stage is not written, the stages that returned before it in this
\* call are on record and every entry of earlier calls is kept.
C11_ExceptionsPropagate ==
    [][(Idle /\ call'.op = "run" /\ Failing(trace') # {}) =>
          /\ outcome' = "CollaboratorError"
          /\ ret_registry' = None
          /\ Failing(trace') = {Len(trace')}
          /\ LET k == KeyOfStage(trace'[Len(trace')].stage)
             IN  /\ (k \in DOMAIN results' <=> k \in DOMAIN results)
                 /\ (k \in DOMAIN results => results'[k] = results[k])
          /\ \A i \in 1..(Len(trace') - 1) :
                trace'[i].stage # "mask" =>
                   DictGet(results', KeyOfStage(trace'[i].stage), NoTable)
                      = trace'[i].table
          /\ \A k \in DOMAIN results :
                /\ k \in DOMAIN results'
                /\ (~Returned(trace', StageOfKey(k)) => results'[k] = results[k])]_vars

\* the vetting of a run raised after its search returned, on an orchestrator
\* that already had a vetting entry
C11_Witness ==
    /\ IsRun
    /\ outcome = "CollaboratorError"
    /\ Len(trace) = 3
    /\ trace[3].stage = "vet" /\ ~trace[3].returned
    /\ results.transit_finding = trace[2].table
    /\ "vetting" \in DOMAIN results

\* C20: run_injection_retrieval hands the injector the n_injections of the
\* orchestrator's configuration exactly when the caller omits n_injections
\* (the configuration is read in that case only), and the caller's value
\* unchanged whenever one is given, 0 included.
C20_NInjectionsDefault ==
    /\ (call.op = "run_injection_retrieval" /\ transit_injector) =>
          /\ Len(trace) = 1
          /\ trace[1].stage = "inject"
          /\ config_read = IsNone(call.n_injections)
          /\ trace[1].n_injections =
                (IF IsNone(call.n_injections)
                 THEN config.injection_retrieval.n_injections
                 ELSE Value(call.n_injections))
    /\ IsRun =>
          LET given == KwArg(DictGet(call.kwargs, "injection_retrieval_kwargs",
                                     EmptyDict), "n_injections")
          IN  \A i \in Events(trace, "inject") :
                 /\ config_read = IsNone(given)
                 /\ trace[i].n_injections =
                       (IF IsNone(given)
                        THEN config.injection_retrieval.n_injections
                        ELSE Value(given))

C20_Witness ==
    /\ call.op = "run_injection_retrieval"
    /\ call.n_injections = Some(0)
    /\ Len(trace) = 1
    /\ trace[1].n_injections = 0
    /\ config.injection_retrieval.n_injections # 0
    /\ ~config_read


(***************************************************************************)
(* utils.eclipses: vocabulary                                              *)
(***************************************************************************)
Applied == e_op \in {"indices", "mask"}
\* sample i (1-based position) of the phases was selected by the call
Marked(i) ==
    IF e_op = "mask" THEN e_mask[i]
    ELSE \E j \in 1..Len(e_indices) : e_indices[j] = i - 1
Present == ~IsNaN(e_pos) /\ ~IsNaN(e_width) /\ e_width.v # 0
Min(a, b) == IF a <= b THEN a ELSE b
\* the circular distance of phase and pos is at most width/2
InCircularWindow(phase, pos, width) ==
    /\ ~IsNaN(phase)
    /\ phase.v >= 0 /\ phase.v < One
    /\ 2 * Min(Abs(phase.v - pos.v), One - Abs(phase.v - pos.v)) <= width.v
InRange ==
    /\ Applied /\ ~IsNaN(e_pos) /\ ~IsNaN(e_width)
    /\ e_pos.v >= 0 /\ e_pos.v <= One
    /\ e_width.v > 0 /\ e_width.v <= One

\* C12 (as stated; the code departs from it): for pos in [0, 1], width in
\* (0, 1] and a phase in [0, 1), a sample whose circular distance from pos is at
\* most width/2 is selected.
C12_Original ==
    InRange =>
        \A i \in 1..Len(e_input) :
            InCircularWindow(e_input[i], e_pos, e_width) => Marked(i)

\* C13 (as stated; the code departs from it): for pos in [0, 1], width in
\* (0, 1] and a phase in [0, 1), a selected sample lies within width/2 of pos
\* on the phase circle.
C13_Original ==
    InRange =>
        \A i \in 1..Len(e_input) :
            (~IsNaN(e_input[i]) /\ Marked(i)) =>
                InCircularWindow(e_input[i], e_pos, e_width)

\* C14: with pos not-a-number, width not-a-number or width 0 the index array
\* is empty and the mask is all-False and as long as the phases; pos = 0 with
\* a non-zero width is an eclipse like any other and selects a sample at
\* phase 0.
C14_AbsentEclipse ==
    /\ (Applied /\ ~Present) =>
          /\ e_op = "indices" => e_indices = <<>>
          /\ e_op = "mask" =>
                /\ Len(e_mask) = Len(e_input)
                /\ \A i \in 1..Len(e_mask) : ~e_mask[i]
    /\ (Applied /\ Present /\ e_pos = Num(0)) =>
          \A i \in 1..Len(e_input) : e_input[i] = Num(0) => Marked(i)

C14_Witness ==
    /\ e_op = "mask"
    /\ IsNaN(e_pos) /\ e_width = Num(10)
    /\ e_input = <<Num(0), Num(50)>>
    /\ e_mask = <<FALSE, FALSE>>

\* the ends of the window as the float arithmetic gives them
WindowLo(pos, width) == DSub(Dbl(pos), Half(Dbl(width)))
WindowHi(pos, width) == DAdd(Dbl(pos), Half(Dbl(width)))
InInterval(phase, pos, width) ==
    /\ Ge(Dbl(phase), WindowLo(pos, width))
    /\ Le(Dbl(phase), WindowHi(pos, width))
MiddlePos ==
    /\ e_op = "mask" /\ ~IsNaN(e_pos) /\ ~IsNaN(e_width)
    /\ e_pos.v > Pos05 /\ e_pos.v < Pos95
    /\ e_width.v >= 0

\* C15 (as stated): for pos in (0.05, 0.95) and width >= 0 the mask is True
\* exactly on the phases in [pos - width/2, pos + width/2], the ends as the
\* float arithmetic gives them.
C15_Original ==
    MiddlePos =>
        \A i \in 1..Len(e_input) :
            e_mask[i] <=> InInterval(e_input[i], e_pos, e_width)

\* C15 (amended): for pos in (0.05, 0.95) and width > 0 the mask is True
\* exactly on the phases in [pos - width/2, pos + width/2], ends included and
\* without wraparound, the two ends being the floats the code computes (with
\* pos = 0.06 and width = 0.02 the upper end falls just short of 0.07 and the
\* phase 0.07 is not marked); with width = 0 nothing is marked, the phase
\* equal to pos included.
C15_ContiguousInterval ==
    MiddlePos =>
        /\ Len(e_mask) = Len(e_input)
        /\ \A i \in 1..Len(e_input) :
              e_mask[i] <=>
                 (e_width.v > 0 /\ InInterval(e_input[i], e_pos, e_width))
        /\ (e_pos = Num(6) /\ e_width = Num(2)) =>
              \A i \in 1..Len(e_input) :
                 /\ e_input[i] = Num(7) => ~e_mask[i]
                 /\ e_input[i] = Num(5) => e_mask[i]

C15_Witness ==
    /\ e_op = "mask"
    /\ e_pos = Num(10) /\ e_width = Num(10)
    /\ e_input = <<Num(5), Num(2)>>
    /\ e_mask = <<TRUE, FALSE>>

\* C16: with an eclipse present and pos > 0.95 the selected samples are
\* exactly those with phase >= pos - width/2 or phase <= pos + width/2 - 1;
\* with pos < 0.05 exactly those with phase >= pos - width/2 + 1 or
\* phase <= pos + width/2, the bounds being evaluated in float arithmetic
\* from left to right.  With pos = 0.99, width = 0.1 phase 0.02 is
\* selected and 0.5 is not; with pos = 0.01, width = 0.1 phase 0.98 is.
C16_WrapBranches ==
    (Applied /\ Present) =>
        LET lo == WindowLo(e_pos, e_width)
            hi == WindowHi(e_pos, e_width)
            one == Dbl(Num(One))
        IN  /\ e_pos.v > Pos95 =>
                 \A i \in 1..Len(e_input) :
                    Marked(i) <=> (\/ Ge(Dbl(e_input[i]), lo)
                                   \/ Le(Dbl(e_input[i]), DSub(hi, one)))
            /\ e_pos.v < Pos05 =>
                 \A i \in 1..Len(e_input) :
                    Marked(i) <=> (\/ Ge(Dbl(e_input[i]), DAdd(lo, one))
                                   \/ Le(Dbl(e_input[i]), hi))
            /\ (e_pos = Num(99) /\ e_width = Num(10)) =>
                 \A i \in 1..Len(e_input) :
                    /\ e_input[i] = Num(2) => Marked(i)
                    /\ e_input[i] = Num(50) => ~Marked(i)
            /\ (e_pos = Num(1) /\ e_width = Num(10)) =>
                 \A i \in 1..Len(e_input) :
                    e_input[i] = Num(98) => Marked(i)

C16_Witness ==
    /\ e_op = "indices"
    /\ e_pos = Num(99) /\ e_width = Num(10)
    /\ e_input = <<Num(50), Num(2)>>
    /\ e_indices = <<1>>

\* C18: the mask is as long as the phases, is True at index i exactly when
\* get_eclipse_indices returns i for the same arguments, and the phases
\* array is as it was passed.
C18_MaskIsIndices ==
    e_op = "mask" =>
        LET idx == get_eclipse_indices(e_input, e_pos, e_width)
        IN  /\ Len(e_mask) = Len(e_input)
            /\ \A i \in 1..Len(e_mask) :
                  e_mask[i] <=> (\E j \in 1..Len(idx) : idx[j] = i - 1)
            /\ e_phases = e_input

C18_Witness ==
    /\ e_op = "mask"
    /\ e_pos = Num(50) /\ e_width = Num(2)
    /\ e_input = <<Num(2), Num(50)>>
    /\ e_mask = <<FALSE, TRUE>>


\* a < b in exact arithmetic
FLess(a, b) ==
    /\ IsNum(a) /\ IsNum(b)
    /\ LET d == XAdd(a, FNeg(b)) IN d.neg /\ ~FIsZero(d)

\* C17 (as stated; the code departs from it): for period > 0 the returned
\* phase lies in [centre - 0.5, centre + 0.5), the upper end excluded.  The
\* two ends are taken exactly.
C17_Original ==
    (p_op = "phase" /\ FLess(FZero, p_period)) =>
        /\ ~FLess(p_phase, XAdd(p_centre, Flt(0 - 1, 0 - 1)))
        /\ FLess(p_phase, XAdd(p_centre, Flt(1, 0 - 1)))

\* C19 (as stated; the code departs from it): no construction fails because
\* the output directory already exists, however the constructions on one
\* output location are interleaved.
C19_Original ==
    \A p \in Constructions : c_pc[p] # "FileExistsError"


(***************************************************************************)
(* run: the routing of the snippets, the caller's mappings, the registry   *)
(***************************************************************************)
\* the vet_candidates_kwargs the caller passed to the run call on record
PassedVetKwargs == DictGet(call.kwargs, "vet_candidates_kwargs", EmptyDict)
\* the snippets the transit finder holds once the call's search is over
FinderSnippets == DictGet(finder_results, "event_snippets", <<>>)

\* C22 (as stated; the code departs from it): when run vets, the caller's
\* event_snippets are vetted if the caller's vet_candidates_kwargs holds the
\* key; else the snippets the finder holds after this call's search, if there
\* is at least one; else vetting reads a directory, the caller's
\* event_snippets_dir if given and <output dir>/event_snippets if not.
C22_Original ==
    IsRun =>
        \A i \in Events(trace, "vet") :
            IF "event_snippets" \in DOMAIN PassedVetKwargs
            THEN /\ trace[i].kind = "snippets"
                 /\ Some(trace[i].snippets) = PassedVetKwargs.event_snippets
            ELSE IF Len(FinderSnippets) > 0
            THEN /\ trace[i].kind = "snippets"
                 /\ trace[i].snippets = FinderSnippets
            ELSE /\ trace[i].kind = "directory"
                 /\ trace[i].path =
                       (IF IsNone(KwArg(PassedVetKwargs, "event_snippets_dir"))
                        THEN Join(OutputDir, "event_snippets")
                        ELSE Value(PassedVetKwargs.event_snippets_dir))

\* C23 (as stated; the code departs from it): after run the caller's
\* vet_candidates_kwargs mapping is as the caller passed it.
C23_Original ==
    (IsRun /\ "vet_candidates_kwargs" \in DOMAIN call.kwargs) =>
        caller_kwargs = Some(call.kwargs.vet_candidates_kwargs)

\* C24: the registry's keys are among transit_finding, vetting and
\* injection_retrieval; 'vetting' is there only with 'transit_finding', and
\* 'injection_retrieval' only on an orchestrator that has an injector.
C24_RegistryShape ==
    /\ DOMAIN results \subseteq {"transit_finding", "vetting", "injection_retrieval"}
    /\ "vetting" \in DOMAIN results => "transit_finding" \in DOMAIN results
    /\ "injection_retrieval" \in DOMAIN results => transit_injector

C24_Witness ==
    /\ DOMAIN results = {"transit_finding", "vetting", "injection_retrieval"}
    /\ transit_injector
    /\ outcome = "CollaboratorError"


(***************************************************************************)
(* The configuration                                                       *)
(***************************************************************************)
\* every key of the tree d is a key of the tree c, level by level
RECURSIVE HasAllKeys(_, _)
HasAllKeys(c, d) ==
    \A k \in DOMAIN d.items :
        /\ k \in DOMAIN c.items
        /\ d.items[k].kind = "map" =>
              /\ c.items[k].kind = "map"
              /\ HasAllKeys(c.items[k], d.items[k])
\* the user's configuration names the option of the stage
Names(user, stage, option) ==
    /\ ~IsNone(user)
    /\ stage \in DOMAIN Value(user).items
    /\ option \in DOMAIN Value(user).items[stage].items

\* C21: whatever configuration the user gives (none, an empty one, some of
\* the options, all of them), self.config has every key of the defaults at
\* every level, each default option holds the user's value when the user
\* names it and the default value when not, and neither the defaults nor the
\* user's mapping have changed.
C21_ConfigComplete ==
    g_op = "built" =>
        /\ HasAllKeys(g_config, get_default_config)
        /\ \A stage \in DOMAIN get_default_config.items :
           \A option \in DOMAIN get_default_config.items[stage].items :
              g_config.items[stage].items[option] =
                 (IF Names(g_user_in, stage, option)
                  THEN Value(g_user_in).items[stage].items[option]
                  ELSE get_default_config.items[stage].items[option])
        /\ g_user = g_user_in
        /\ g_default = get_default_config

C21_Witness ==
    /\ g_op = "built"
    /\ g_user_in = Some(Map([transit_finding |-> Map([mad_threshold |-> Leaf(7)])]))
    /\ g_config.items.transit_finding.items.mad_threshold = Leaf(7)
    /\ g_config.items.transit_finding.items.detrending_method = Leaf(1)
    /\ "injection_retrieval" \in DOMAIN g_config.items


\* x is a whole multiple of p # 0, in exact arithmetic
IsMultiple(x, p) ==
    LET e == Least(x.exp, p.exp)
    IN  NDivMod(NShl(x.mant, x.exp - e), NShl(p.mant, p.exp - e)).r = <<>>

\* C25 (as stated; the code departs from it): for a non-zero period the
\* returned phase differs from (t - epoch)/period by an integer, that is,
\* phase * period - (t - epoch) is a whole multiple of the period, all taken
\* exactly.
C25_Original ==
    (p_op = "phase" /\ ~FIsZero(p_period)) =>
        IsMultiple(XAdd(XMul(p_phase, p_period),
                        FNeg(XAdd(p_time, FNeg(p_t0)))),
                   p_period)

====
